---- MODULE Spec2Model ----
(***************************************************************************)
(* The domain update pipeline of lambda/processLdRequest.js: the runs of    *)
(* handler -> processLdRequestWorkflow, one scheduled invocation after the  *)
(* other, against a LaunchDarkly segment, an S3 bucket of date-partitioned  *)
(* manifests and a Slack webhook.                                          *)
(*                                                                         *)
(* Strings that the code compares, slices or concatenates are sequences of *)
(* decimal digits (<<0,9,5,9,5,9,0,0,0,0>> is '0959590000'); an S3 key or   *)
(* URL is the sequence of its '/'-separated segments, so that              *)
(* key.split('/')[i] of the code is key[i + 1] here.                       *)
(***************************************************************************)
EXTENDS Integers, Sequences, FiniteSets, Bags, TLC

\* ------------------------------------------------------------------ bounds
\* Calendar days of the model: day 1 is 2024-01-01, "now" is day MaxDay.
MaxDay == 2
\* Largest number of manifests in the bucket.
MaxManifests == 2
\* Largest number of values in the segment that another invocation is
\* started on.
MaxValues == 6

\* ------------------------------------------------------- strings and dates
Null == "<null>"

Pad2(n) == <<n \div 10, n % 10>>

Pad4(n) == <<n \div 1000, (n \div 100) % 10, (n \div 10) % 10, n % 10>>

RECURSIVE NumVal(_)
\* Number(str) of JavaScript for a string of decimal digits.
NumVal(ds) == IF ds = <<>> THEN 0 ELSE 10 * NumVal(SubSeq(ds, 1, Len(ds) - 1)) + ds[Len(ds)]

RECURSIVE StrLess(_, _)
\* a < b of JavaScript on two strings: code unit by code unit, a proper
\* prefix is the smaller.
StrLess(a, b) ==
  IF b = <<>> THEN FALSE
  ELSE IF a = <<>> THEN TRUE
  ELSE IF Head(a) = Head(b) THEN StrLess(Tail(a), Tail(b))
  ELSE Head(a) < Head(b)

StrGreater(a, b) == StrLess(b, a)

\* Times of day the model draws watermarks and manifest folders from.
Times == {<<0, 0, 0>>, <<13, 5, 9>>}

Days == 1 .. MaxDay

\* The wall clock of the run, new Date().
Today == MaxDay

\* An instant is [day, time]: day counts from 2024-01-01 = 1.
Instant(d, t) == [day |-> d, time |-> t]

Instants == {Instant(d, t) : d \in Days, t \in Times}

\* Calendar fields of a day, as dayjs(...).utc() and Date.getUTC* give them.
ToYMD(d) == <<2024, 1, d>>

\* The day of a calendar date, as new Date('YYYY-MM-DDT...Z') gives it.
FromYMD(ymd) == ymd[3]

\* dayjs format 'YYYY-MM-DD' / 'YYYY', 'MM', 'DD'.
FormatYear(d) == Pad4(ToYMD(d)[1])

FormatMonth(d) == Pad2(ToYMD(d)[2])

FormatDay(d) == Pad2(ToYMD(d)[3])

FormatYYYYMMDD(d) == FormatYear(d) \o FormatMonth(d) \o FormatDay(d)

\* dayjs format 'HHmmss'.
FormatHHmmss(t) == Pad2(t[1]) \o Pad2(t[2]) \o Pad2(t[3])

\* The folder token strftime('%H%M%S0000') of a manifest written at t.
Token(t) == FormatHHmmss(t) \o <<0, 0, 0, 0>>

\* ------------------------------------------------------------ descriptions
\* A rule description, or the run's lastUpdatedDate, is one of: a Date
\* object ("date"), the text 'MMMM D, YYYY, h:mm:ss A UTC' ("long"), text
\* that is no date ("text"), or nothing ("none").
NoDesc == [kind |-> "none", ymd |-> <<0, 0, 0>>, hms |-> <<0, 0, 0>>, meridiem |-> ""]

TextDesc == [kind |-> "text", ymd |-> <<0, 0, 0>>, hms |-> <<0, 0, 0>>, meridiem |-> ""]

DateObject(i) == [kind |-> "date", ymd |-> ToYMD(i.day), hms |-> i.time, meridiem |-> ""]

\* dayjs(x).utc().format('MMMM D, YYYY, h:mm:ss A [UTC]'): 12-hour clock.
FormatLong(i) ==
  [kind |-> "long", ymd |-> ToYMD(i.day),
   hms |-> <<IF i.time[1] % 12 = 0 THEN 12 ELSE i.time[1] % 12, i.time[2], i.time[3]>>,
   meridiem |-> IF i.time[1] < 12 THEN "AM" ELSE "PM"]

\* dayjs(description).utc(): the instant a description parses to.
ParseDesc(desc) ==
  IF desc.kind = "long"
  THEN Instant(FromYMD(desc.ymd),
               <<(desc.hms[1] % 12) + (IF desc.meridiem = "PM" THEN 12 ELSE 0),
                 desc.hms[2], desc.hms[3]>>)
  ELSE Instant(FromYMD(desc.ymd), desc.hms)

IsValidDesc(desc) == desc.kind \in {"long", "date"}

\* ------------------------------------------------------------- the bucket
BUCKET_NAME == "bucket"

ManifestKey(d, t) ==
  <<"pqa_trials", FormatYear(d), FormatMonth(d), FormatDay(d), Token(t), "manifest">>

ManifestKeys == {ManifestKey(d, t) : d \in Days, t \in Times}

FileUrl(key, name) == <<"s3:", "", BUCKET_NAME>> \o SubSeq(key, 1, 5) \o <<name>>

\* The times of three manifests outside the regular ones: one that names a
\* single data file of two domains, one whose entry has a folder token of
\* six characters, and one whose entry has no folder token at all.
ScenarioTime == <<9, 30, 0>>

ShortTokenTime == <<23, 59, 59>>

NoTokenTime == <<23, 59, 58>>

ScenarioManifest == ManifestKey(FromYMD(<<2024, 1, 2>>), ScenarioTime)

ShortTokenManifest == ManifestKey(FromYMD(<<2024, 1, 2>>), ShortTokenTime)

NoTokenManifest == ManifestKey(FromYMD(<<2024, 1, 2>>), NoTokenTime)

\* manifestJson.entries.map(entry => entry.url) of the manifest at key: the
\* data files an unload wrote next to it, two on the even days of the
\* month and one otherwise.
Entries(key) ==
  IF key[5] = Token(ShortTokenTime)
  THEN <<<<"s3:", "", BUCKET_NAME>> \o SubSeq(key, 1, 4)
           \o <<FormatHHmmss(ShortTokenTime), "0000_part_00.gz">>>>
  ELSE IF key[5] = Token(NoTokenTime)
  THEN <<<<"s3:", "", BUCKET_NAME>> \o SubSeq(key, 1, 3) \o <<"0000_part_00.gz">>>>
  ELSE IF key[5] = Token(ScenarioTime)
  THEN <<FileUrl(key, "0000_part_00.gz")>>
  ELSE IF key[5] # Token(<<0, 0, 0>>) /\ NumVal(key[4]) % 2 = 0
  THEN <<FileUrl(key, "0000_part_00.gz"), FileUrl(key, "0001_part_00.gz")>>
  ELSE <<FileUrl(key, "0000_part_00.gz")>>

\* Column 0 of the rows of a data file.
Rows(url) ==
  IF Len(url) < 9 THEN <<"z.com">>
  ELSE IF url[8] = FormatHHmmss(ShortTokenTime) THEN <<"z.com", "x.com">>
  ELSE IF url[8] = Token(ScenarioTime) THEN <<"x.com", "y.com">>
  ELSE IF url[8] = Token(<<0, 0, 0>>) THEN <<"m.com">>
  ELSE IF NumVal(url[7]) % 2 = 1 THEN <<"", Null>>
  ELSE IF url[9] = "0000_part_00.gz" THEN <<"a.com", "b.com", "a.com", Null, "">>
  ELSE <<"y.com", "a.com">>

RECURSIVE Flat(_)
\* Array.prototype.flat() of an array of arrays.
Flat(ss) == IF ss = <<>> THEN <<>> ELSE Head(ss) \o Flat(Tail(ss))

SeqToSet(s) == {s[i] : i \in 1 .. Len(s)}

\* Rank of the last segment of a key in UTF-8 binary order ('0' < 'm').
NameRank(name) ==
  IF name = "0000_part_00.gz" THEN 0 ELSE IF name = "0001_part_00.gz" THEN 1 ELSE 2

\* Order of two keys under one day's prefix in UTF-8 binary order.
KeyLess(a, b) == StrLess(a[5], b[5]) \/ (a[5] = b[5] /\ NameRank(a[6]) < NameRank(b[6]))

RECURSIVE SortKeys(_)
SortKeys(S) ==
  IF S = {} THEN <<>>
  ELSE LET m == CHOOSE x \in S : \A y \in S \ {x} : KeyLess(x, y)
       IN <<m>> \o SortKeys(S \ {m})

\* The keys of the objects of a bucket holding the manifests ms: every
\* manifest and the data files it names.
ObjectKeys(ms) ==
  UNION {{m} \cup {SubSeq(Entries(m)[j], 4, Len(Entries(m)[j])) : j \in 1 .. Len(Entries(m))} :
           m \in ms}

\* response.data.Contents of ListObjects(folderPath): the keys under the
\* prefix, which S3 returns in UTF-8 binary order.
ListObjects(ms, prefix) ==
  SortKeys({k \in ObjectKeys(ms) : Len(k) > 4 /\ SubSeq(k, 1, 4) = prefix})

\* ------------------------------------------------------------ utilsService
\* process.env.FALLBACK_DATE || '2024-01-01', as new Date(fallbackDate).
FallbackDate == Instant(FromYMD(<<2024, 1, 1>>), <<0, 0, 0>>)

\* The search that looks at the first rule only.
FindValidRuleFirstOnly(rules) ==
  IF rules # <<>> /\ IsValidDesc(Head(rules).description) THEN <<Head(rules)>> ELSE <<>>

\* segmentData.rules.find(rule => dayjs(rule.description).utc().isValid())
RECURSIVE FindValidRule(_)
FindValidRule(rules) ==
  IF rules = <<>> THEN <<>>
  ELSE IF IsValidDesc(Head(rules).description) THEN <<Head(rules)>>
  ELSE FindValidRule(Tail(rules))

setLastUpdateDateFromSegment(segmentData) ==
  LET validRule == FindValidRule(segmentData.rules)
  IN IF validRule # <<>>
     THEN DateObject(ParseDesc(validRule[1].description))
     ELSE DateObject(FallbackDate)

RECURSIVE DatesFromExclusive(_, _)
\* The loop with < for <=.
DatesFromExclusive(currentIteratingDate, currentDate) ==
  IF currentIteratingDate < currentDate
  THEN <<currentIteratingDate>> \o DatesFromExclusive(currentIteratingDate + 1, currentDate)
  ELSE <<>>

RECURSIVE DatesFrom(_, _)
\* while (currentIteratingDate <= currentDate) { push; setUTCDate(+1) }
DatesFrom(currentIteratingDate, currentDate) ==
  IF currentIteratingDate <= currentDate
  THEN <<currentIteratingDate>> \o DatesFrom(currentIteratingDate + 1, currentDate)
  ELSE <<>>

\* The days, each at midnight UTC, from the watermark's day to today.
getDatesFromLastUpdateToCurrent(lastUpdatedDate) ==
  DatesFrom(ParseDesc(lastUpdatedDate).day, Today)

\* `${year}-${month}-${day}T${hour}:${minute}:${second}Z` of a file URL, as
\* the instant dayjs parses it to.
formatDateTimeString(parts, numericPart) ==
  Instant(FromYMD(<<NumVal(parts[5]), NumVal(parts[6]), NumVal(parts[7])>>),
          <<NumVal(SubSeq(numericPart, 1, 2)), NumVal(SubSeq(numericPart, 3, 4)),
            NumVal(SubSeq(numericPart, 5, 6))>>)

\* --------------------------------------------------- processDailyManifests
\* The lower bound of the day's time tokens.
lastUpdatedTime(day, lastUpdatedDate) ==
  IF FormatYYYYMMDD(day) = FormatYYYYMMDD(ParseDesc(lastUpdatedDate).day)
  THEN FormatHHmmss(ParseDesc(lastUpdatedDate).time) \o <<0, 0, 0, 0>>
  ELSE <<0, 0, 0, 0, 0, 0, 0, 0, 0, 0>>

\* The filter without the comparison of the time token.
IsNewManifestAny(parts, bound) ==
  /\ Len(parts) > 5
  /\ parts[5] # <<>>
  /\ parts[6] = "manifest"

\* The filter with >= for >.
IsNewManifestInclusive(parts, bound) ==
  /\ Len(parts) > 5
  /\ parts[5] # <<>>
  /\ parts[6] = "manifest"
  /\ ~StrLess(parts[5], bound)

\* The predicate of _.filter(response.data.Contents, ...).
IsNewManifest(parts, bound) ==
  /\ Len(parts) > 4
  /\ parts[5] # <<>>
  /\ Len(parts) > 5
  /\ parts[6] = "manifest"
  /\ StrGreater(parts[5], bound)

folderPath(day) == <<"pqa_trials", FormatYear(day), FormatMonth(day), FormatDay(day)>>

\* The manifest_url a day's scan returns for the listing contents.
processDailyManifests(day, lastUpdatedDate, contents) ==
  SelectSeq(contents, LAMBDA item : IsNewManifest(item, lastUpdatedTime(day, lastUpdatedDate)))

\* ------------------------------------------------ processLdRequestWorkflow
\* _.compact: drops the falsy values, here null/undefined and ''.
compact(array) == SelectSeq(array, LAMBDA v : v # Null /\ v # "")

RECURSIVE uniq(_)
\* _.uniq: keeps the first occurrence of every value, in order.
uniq(array) ==
  IF array = <<>> THEN <<>>
  ELSE LET front == uniq(SubSeq(array, 1, Len(array) - 1))
           last == array[Len(array)]
       IN IF last \in SeqToSet(front) THEN front ELSE Append(front, last)

\* The domain list without _.uniq.
dedupeNoUniq(results) == compact(Flat(results))

\* domains = _.uniq(_.compact(domains)) of the flattened per-file results.
dedupe(results) == uniq(compact(Flat(results)))

\* The write-back without the two length checks.
hasNewDomainsAlways(domainList) == TRUE

\* domains.length === 0 / domains.length > 0: whether the run writes back.
hasNewDomains(domainList) == Len(domainList) > 0

\* numericPart = _.get(lastFilePath.split('/'), '[7]')
numericPartOf(lastFilePath) == IF Len(lastFilePath) >= 8 THEN lastFilePath[8] ELSE <<>>

\* The test without the length of the token.
validNumericPartAnyLength(numericPart) == numericPart # <<>>

\* numericPart && numericPart.length === 10
validNumericPart(numericPart) == numericPart # <<>> /\ Len(numericPart) = 10

\* lastFilePath = _.last(allFileUrls)
lastOf(fileUrls) == fileUrls[Len(fileUrls)]

\* An update that writes the timestamp in a form dayjs does not parse.
updateLastUpdatedDateUnparsed(fileUrls, lastUpdatedDate) ==
  IF fileUrls = <<>> THEN lastUpdatedDate
  ELSE IF validNumericPart(numericPartOf(lastOf(fileUrls)))
  THEN TextDesc
  ELSE lastUpdatedDate

\* The description the run writes: the long format of the timestamp in the
\* last file URL, or the starting Date when its token is malformed.
updateLastUpdatedDate(fileUrls, lastUpdatedDate) ==
  IF fileUrls = <<>> THEN lastUpdatedDate
  ELSE IF validNumericPart(numericPartOf(lastOf(fileUrls)))
  THEN FormatLong(formatDateTimeString(lastOf(fileUrls), numericPartOf(lastOf(fileUrls))))
  ELSE lastUpdatedDate

\* A merge that starts from no existing value.
existingEmailDomainsDropped(segmentData) == <<>>

\* segmentData.rules[0]?.clauses[0]?.values || []
existingEmailDomains(segmentData) ==
  IF segmentData.rules[1].clauses = <<>> THEN <<>>
  ELSE segmentData.rules[1].clauses[1].values

hasRules(segmentData) == Len(segmentData.rules) > 0

\* The first operation as a replace whatever the segment holds.
initialOperationTypeReplace(segmentData) == "replace"

\* 'replace' when the segment has a rule, else 'add'
initialOperationType(segmentData) == IF hasRules(segmentData) THEN "replace" ELSE "add"

\* The merge with the new domains put first.
updatedEmailDomainsNewFirst(segmentData, domainList) ==
  IF hasRules(segmentData)
  THEN domainList \o existingEmailDomains(segmentData)
  ELSE domainList

\* [...existingEmailDomains, ...updatedEmailDomains] or [...domains]
updatedEmailDomains(segmentData, domainList) ==
  IF hasRules(segmentData)
  THEN existingEmailDomains(segmentData) \o domainList
  ELSE domainList

Clause(values) ==
  [contextKind |-> "user", attribute |-> "emailDomain", op |-> "in", values |-> values,
   negate |-> FALSE]

\* An operation addressed to the second rule.
PatchOpSecondRule(op, values, description) ==
  [op |-> op, path |-> "/rules/1",
   value |-> [clauses |-> <<Clause(values)>>, description |-> description]]

\* { op, path: '/rules/0', value: { clauses: [...], description } }
PatchOp(op, values, description) ==
  [op |-> op, path |-> "/rules/0",
   value |-> [clauses |-> <<Clause(values)>>, description |-> description]]

\* A JavaScript value of the loop counter: the number 0, or a string.
JsZero == [type |-> "number", text |-> <<0>>]

\* Number(v)
ToNumber(v) == NumVal(v.text)

\* v + Limit with Limit a string: the concatenation of the two as strings.
JsPlus(v, limit) == [type |-> "string", text |-> v.text \o limit]

\* count === 0
IsNumberZero(v) == v.type = "number" /\ NumVal(v.text) = 0

\* A slice that leaves out the element at its start index.
SliceAfterStart(array, start, end) ==
  SubSeq(array, start + 2, IF end < Len(array) THEN end ELSE Len(array))

\* array.slice(start, end)
Slice(array, start, end) ==
  SubSeq(array, start + 1, IF end < Len(array) THEN end ELSE Len(array))

\* Every chunk with the first chunk's operation type.
chunkOpInitial(count, opType) == opType

\* op: count === 0 ? initialOperationType : 'add'
chunkOp(count, opType) == IF IsNumberZero(count) THEN opType ELSE "add"

RECURSIVE chunkLoop(_, _, _, _, _)
\* for (let count = 0; count < values.length; count += Limit) { push }
chunkLoop(values, count, limit, opType, description) ==
  IF ToNumber(count) < Len(values)
  THEN <<PatchOp(chunkOp(count, opType),
                 Slice(values, ToNumber(count), ToNumber(JsPlus(count, limit))),
                 description)>>
       \o chunkLoop(values, JsPlus(count, limit), limit, opType, description)
  ELSE <<>>

\* The else branch carrying the new domains only.
singleOperationNewOnly(segmentData, domainList, description) ==
  <<PatchOp(initialOperationType(segmentData), domainList, description)>>

\* The single operation of the else branch.
singleOperation(segmentData, domainList, description) ==
  <<PatchOp(initialOperationType(segmentData),
            updatedEmailDomains(segmentData, domainList), description)>>

\* A patchOperation list whose first operation keeps the description of
\* the rule it replaces.
buildPatchOperationKeepsFirst(segmentData, domainList, description, limit) ==
  LET operations ==
        IF Len(updatedEmailDomains(segmentData, domainList)) > NumVal(limit)
        THEN chunkLoop(updatedEmailDomains(segmentData, domainList), JsZero, limit,
                       initialOperationType(segmentData), description)
        ELSE singleOperation(segmentData, domainList, description)
  IN IF hasRules(segmentData)
     THEN [operations EXCEPT ![1].value.description = segmentData.rules[1].description]
     ELSE operations

\* The patchOperation list of a run with new domains.
buildPatchOperation(segmentData, domainList, description, limit) ==
  IF Len(updatedEmailDomains(segmentData, domainList)) > NumVal(limit)
  THEN chunkLoop(updatedEmailDomains(segmentData, domainList), JsZero, limit,
                 initialOperationType(segmentData), description)
  ELSE singleOperation(segmentData, domainList, description)

\* ------------------------------------------------------------ notifications
\* How the webhook can answer a POST: 2xx, another status, or not at all.
Webhooks == {"ok", "non2xx", "unreachable"}

\* A sendSlackMessage without try/catch: a fetch that throws rejects it.
sendSlackMessageUncaught(hook) == IF hook = "unreachable" THEN "rejected" ELSE "fulfilled"

\* How the promise of sendSlackMessage(message) settles: a status that is
\* not ok is logged and returned from, a fetch that throws is caught and
\* logged.
sendSlackMessage(hook) ==
  IF hook = "non2xx" THEN "fulfilled"
  ELSE IF hook = "unreachable" THEN "fulfilled"
  ELSE "fulfilled"

Text(type) == [type |-> type, count |-> 0, watermark |-> NoDesc]

\* utilsService.formatMessage(status, lastUpdatedDate, numberOfDomains)
formatMessage(status, lastUpdatedDate, numberOfDomains) ==
  [type |-> status, count |-> numberOfDomains, watermark |-> lastUpdatedDate]

\* The message of an empty run carrying the Date object unformatted.
zeroSuccessMessageRaw(lastUpdatedDate) == formatMessage("Success", lastUpdatedDate, 0)

\* The message of a run without new domains: the watermark in the long
\* format, count 0.
zeroSuccessMessage(lastUpdatedDate) ==
  formatMessage("Success", FormatLong(ParseDesc(lastUpdatedDate)), 0)

\* -------------------------------------------------------------- promises
Pending == [state |-> "pending", value |-> <<>>]

Fulfilled(v) == [state |-> "fulfilled", value |-> v]

AllPending(n) == [i \in 1 .. n |-> Pending]

AllFulfilled(promises) == \A i \in DOMAIN promises : promises[i].state = "fulfilled"

\* The values appended in the order in which the promises settled.
awaitAllFlatSettled(promises, order) == Flat([k \in DOMAIN order |-> promises[order[k]].value])

\* The values of the promises from the last to the first.
awaitAllFlatReversed(promises, order) ==
  Flat([i \in DOMAIN promises |-> promises[Len(promises) + 1 - i].value])

\* (await Promise.all(promises)).flat(): the values in the order of the
\* promises, whatever the order in which they settled.
awaitAllFlat(promises, order) == Flat([i \in DOMAIN promises |-> promises[i].value])

\* ------------------------------------------------------- the segment API
\* The array index a JSON pointer into the rules ends with.
PathIndex(path) == IF path = "/rules/0" THEN 0 ELSE 1

\* One operation of the JSON Patch (RFC 6902) body on the rules array:
\* 'replace' of /rules/i overwrites rule i, 'add' of /rules/i inserts a
\* rule before rule i.
ApplyOp(rules, operation) ==
  LET i == PathIndex(operation.path)
  IN IF i > Len(rules) THEN rules
     ELSE IF operation.op = "replace"
     THEN [j \in DOMAIN rules |-> IF j = i + 1 THEN operation.value ELSE rules[j]]
     ELSE SubSeq(rules, 1, i) \o <<operation.value>> \o SubSeq(rules, i + 1, Len(rules))

RECURSIVE ApplyPatch(_, _)
\* The rules after the operations of a PATCH body, applied in order.
ApplyPatch(rules, operations) ==
  IF operations = <<>> THEN rules
  ELSE ApplyPatch(ApplyOp(rules, Head(operations)), Tail(operations))

RECURSIVE SegmentSize(_)
\* The number of values the rules hold.
SegmentSize(rules) ==
  IF rules = <<>> THEN 0
  ELSE Len(Head(rules).clauses[1].values) + SegmentSize(Tail(rules))

\* ------------------------------------------------------------ environment
Rule(values, description) == [clauses |-> <<Clause(values)>>, description |-> description]

ExistingValues == {<<"e1.com", "e2.com", "a.com">>}

Descriptions == {FormatLong(i) : i \in Instants} \cup {TextDesc}

Segments ==
  {[rules |-> <<>>]}
    \cup {[rules |-> <<Rule(v, d)>>] : v \in ExistingValues, d \in Descriptions}

\* What the description of a rule of any segment can be.
RuleDescriptions == Descriptions \cup {NoDesc}

\* Largest number of rules of the segments setLastUpdateDateFromSegment is
\* applied to.
MaxRules == 3

\* Segments of up to MaxRules rules, of any descriptions.
RuleSegments ==
  {[rules |-> [k \in 1 .. n |-> Rule(<<"e1.com">>, ds[k])]] :
     ds \in [1 .. MaxRules -> RuleDescriptions], n \in 0 .. MaxRules}

Stores == {ms \in SUBSET ManifestKeys : Cardinality(ms) <= MaxManifests}

\* Segments of two rules: the first rule with a description that is no
\* date, or the second one.
SegmentsWide ==
  {[rules |-> <<>>]}
    \cup {[rules |-> <<Rule(v, TextDesc),
                       Rule(<<"o.com">>, FormatLong(Instant(1, <<13, 5, 9>>)))>>] :
            v \in ExistingValues}
    \cup {[rules |-> <<Rule(v, FormatLong(Instant(1, <<0, 0, 0>>))),
                       Rule(<<"o.com">>, TextDesc)>>] : v \in ExistingValues}

\* Buckets of the manifests outside the regular ones.
StoresWide ==
  {{ScenarioManifest}, {ShortTokenManifest}, {NoTokenManifest},
   {ScenarioManifest, ShortTokenManifest}}

\* process.env.LIMIT: a string of digits.
LimitChoices == {<<2>>, <<1, 0>>}

\* ------------------------------------------------------------------ state
VARIABLES
  segment,                \* the segment the LaunchDarkly API holds
  store,                  \* the manifests in the bucket
  Limit,                  \* process.env.LIMIT
  pc,                     \* where the run is
  segmentData,            \* the fetched segment
  lastUpdatedDate,        \* the run's watermark, later the description it writes
  daysToProcess,
  dayProcessingPromises,
  settled,                \* the day scans Promise.all waits on that returned, in order
  allManifestUrls,
  manifestPromises,
  allFileUrls,
  domainPromises,
  domains,
  patchOperation,
  patched,                \* the bodies of the PATCH requests the run sent
  slack,                  \* the bag of messages the run posted to the webhook
  statusCode,             \* of the handler's response, 0 before it returns
  last,                   \* what the previous invocation did
  webhook                 \* how the Slack webhook answers

vars ==
  <<segment, store, Limit, pc, segmentData, lastUpdatedDate, daysToProcess,
    dayProcessingPromises, settled, allManifestUrls, manifestPromises, allFileUrls,
    domainPromises, domains, patchOperation, patched, slack, statusCode, last, webhook>>

env == <<segment, store, Limit, last, webhook>>

Post(msg) == slack' = slack (+) SetToBag({msg})

\* Before the first invocation.
NoRun ==
  [outcome |-> "none", read |-> FallbackDate, domains |-> <<>>, clean |-> FALSE,
   missing |-> FALSE]

\* How the invocation ended: "failed" when the process crashed or the
\* handler answered 500, "empty" when it sent no PATCH, "success" when the
\* PATCH was acknowledged and "patchfail" when it was not.
RunOutcome ==
  IF pc = "crashed" \/ statusCode = 500 THEN "failed"
  ELSE IF patched = <<>> THEN "empty"
  ELSE IF \E m \in BagToSet(slack) : m.type = "Success" THEN "success"
  ELSE "patchfail"

\* Every data file of the run was fetched and parsed.
RunClean ==
  \A i \in DOMAIN domainPromises : domainPromises[i] = Fulfilled(Rows(allFileUrls[i]))

\* The object store answered 'not found' for a data file of the run.
RunMissing == \E m \in BagToSet(slack) : m.type = "is empty or missing. Skipping..."

\* What is remembered of the invocation that returned: how it ended; for
\* a run that sent no PATCH, whether a data file was missing; for a run
\* that read every data file and whose PATCH failed, the watermark it had
\* read and the domains it had found.
RunRecord ==
  IF RunOutcome = "patchfail" /\ RunClean
  THEN [outcome |-> RunOutcome,
        read |-> ParseDesc(setLastUpdateDateFromSegment(segmentData)),
        domains |-> domains, clean |-> TRUE, missing |-> FALSE]
  ELSE [outcome |-> RunOutcome, read |-> FallbackDate, domains |-> <<>>, clean |-> FALSE,
        missing |-> RunOutcome = "empty" /\ RunMissing]

Init ==
  /\ segment \in Segments
  /\ store \in Stores
  /\ Limit \in LimitChoices
  /\ pc = "start"
  /\ segmentData = [rules |-> <<>>]
  /\ lastUpdatedDate = NoDesc
  /\ daysToProcess = <<>>
  /\ dayProcessingPromises = <<>>
  /\ settled = <<>>
  /\ allManifestUrls = <<>>
  /\ manifestPromises = <<>>
  /\ allFileUrls = <<>>
  /\ domainPromises = <<>>
  /\ domains = <<>>
  /\ patchOperation = <<>>
  /\ patched = <<>>
  /\ slack = EmptyBag
  /\ statusCode = 0
  /\ last = NoRun
  /\ webhook = "ok"

\* The start of a run against any segment of up to MaxRules rules.
InitRules ==
  /\ segment \in RuleSegments
  /\ store = {}
  /\ Limit \in LimitChoices
  /\ pc = "start"
  /\ segmentData = [rules |-> <<>>]
  /\ lastUpdatedDate = NoDesc
  /\ daysToProcess = <<>>
  /\ dayProcessingPromises = <<>>
  /\ settled = <<>>
  /\ allManifestUrls = <<>>
  /\ manifestPromises = <<>>
  /\ allFileUrls = <<>>
  /\ domainPromises = <<>>
  /\ domains = <<>>
  /\ patchOperation = <<>>
  /\ patched = <<>>
  /\ slack = EmptyBag
  /\ statusCode = 0
  /\ last = NoRun
  /\ webhook = "ok"

\* The first invocation against a segment of several rules, a bucket with
\* an irregular manifest and a webhook that may fail.
InitWide ==
  /\ segment \in SegmentsWide
  /\ store \in StoresWide
  /\ Limit \in LimitChoices
  /\ webhook \in Webhooks
  /\ pc = "start"
  /\ segmentData = [rules |-> <<>>]
  /\ lastUpdatedDate = NoDesc
  /\ daysToProcess = <<>>
  /\ dayProcessingPromises = <<>>
  /\ settled = <<>>
  /\ allManifestUrls = <<>>
  /\ manifestPromises = <<>>
  /\ allFileUrls = <<>>
  /\ domainPromises = <<>>
  /\ domains = <<>>
  /\ patchOperation = <<>>
  /\ patched = <<>>
  /\ slack = EmptyBag
  /\ statusCode = 0
  /\ last = NoRun

\* fetchDataFromApi answered 2xx: the watermark is read, the days are
\* enumerated and every day's listing is requested.
FetchOk ==
  /\ pc = "start"
  /\ segmentData' = segment
  /\ lastUpdatedDate' = setLastUpdateDateFromSegment(segment)
  /\ IF FindValidRule(segment.rules) = <<>>
     THEN Post(Text("Fallback to default date"))
     ELSE UNCHANGED slack
  /\ daysToProcess' = getDatesFromLastUpdateToCurrent(lastUpdatedDate')
  /\ dayProcessingPromises' = AllPending(Len(daysToProcess'))
  /\ pc' = "scan"
  /\ UNCHANGED <<env, settled, allManifestUrls, manifestPromises, allFileUrls,
                 domainPromises, domains, patchOperation, patched, statusCode>>

\* A failed GET after which the workflow returns normally.
FetchFailResolves ==
  /\ pc = "start"
  /\ Post(Text("GET request failed"))
  /\ pc' = "resolved"
  /\ UNCHANGED <<env, segmentData, lastUpdatedDate, daysToProcess, dayProcessingPromises,
                 settled, allManifestUrls, manifestPromises, allFileUrls, domainPromises,
                 domains, patchOperation, patched, statusCode>>

\* fetchDataFromApi failed: it reports the failure and answers isError, the
\* workflow rejects with the error message before its first try block.
FetchFail ==
  /\ pc = "start"
  /\ Post(Text("GET request failed"))
  /\ pc' = "rejected"
  /\ UNCHANGED <<env, segmentData, lastUpdatedDate, daysToProcess, dayProcessingPromises,
                 settled, allManifestUrls, manifestPromises, allFileUrls, domainPromises,
                 domains, patchOperation, patched, statusCode>>

\* The listing of day i returned and the task adds its manifests to the
\* list of the workflow itself, as the scans of the earlier single-file
\* workflow did.
ListOkShared(i) ==
  /\ pc = "scan"
  /\ dayProcessingPromises[i].state = "pending"
  /\ dayProcessingPromises' =
       [dayProcessingPromises EXCEPT ![i] =
          Fulfilled(processDailyManifests(daysToProcess[i], lastUpdatedDate,
                                          ListObjects(store, folderPath(daysToProcess[i]))))]
  /\ allManifestUrls' = allManifestUrls \o dayProcessingPromises'[i].value
  /\ settled' = Append(settled, i)
  /\ UNCHANGED <<env, pc, segmentData, lastUpdatedDate, daysToProcess,
                 manifestPromises, allFileUrls, domainPromises, domains, patchOperation,
                 patched, slack, statusCode>>

\* The listing of day i returned: processDailyManifests resolves.
ListOk(i) ==
  /\ pc = "scan"
  /\ dayProcessingPromises[i].state = "pending"
  /\ dayProcessingPromises' =
       [dayProcessingPromises EXCEPT ![i] =
          Fulfilled(processDailyManifests(daysToProcess[i], lastUpdatedDate,
                                          ListObjects(store, folderPath(daysToProcess[i]))))]
  /\ settled' = Append(settled, i)
  /\ UNCHANGED <<env, pc, segmentData, lastUpdatedDate, daysToProcess, allManifestUrls,
                 manifestPromises, allFileUrls, domainPromises, domains, patchOperation,
                 patched, slack, statusCode>>

\* The listing of day i failed: ListObjects answers isError: true and
\* processDailyManifests returns Promise.reject(response.isError) from
\* inside its try, which its own catch ('Error processing List at ...')
\* never sees; Promise.all rejects with the value true and the workflow's
\* catch reports that value.
ListFail(i) ==
  /\ pc = "scan"
  /\ dayProcessingPromises[i].state = "pending"
  /\ Post(Text("Error processing data From S3: true"))
  /\ pc' = "rejected"
  /\ UNCHANGED <<env, segmentData, lastUpdatedDate, daysToProcess, dayProcessingPromises,
                 settled, allManifestUrls, manifestPromises, allFileUrls, domainPromises,
                 domains, patchOperation, patched, statusCode>>

\* Every day's scan resolved: Promise.all hands over the results by index
\* and the manifests are requested.
DaysJoined ==
  /\ pc = "scan"
  /\ AllFulfilled(dayProcessingPromises)
  /\ allManifestUrls' = awaitAllFlat(dayProcessingPromises, settled)
  /\ manifestPromises' = AllPending(Len(allManifestUrls'))
  /\ pc' = "resolve"
  /\ UNCHANGED <<env, settled, segmentData, lastUpdatedDate, daysToProcess, dayProcessingPromises,
                 allFileUrls, domainPromises, domains, patchOperation, patched,
                 slack, statusCode>>

\* Manifest i was fetched and parsed. (The order in which the scans had
\* returned is of no use once the manifests are being resolved.)
ManifestOk(i) ==
  /\ pc = "resolve"
  /\ manifestPromises[i].state = "pending"
  /\ manifestPromises' = [manifestPromises EXCEPT ![i] = Fulfilled(Entries(allManifestUrls[i]))]
  /\ settled' = <<>>
  /\ UNCHANGED <<env, pc, segmentData, lastUpdatedDate, daysToProcess,
                 dayProcessingPromises, allManifestUrls, allFileUrls,
                 domainPromises, domains, patchOperation, patched, slack, statusCode>>

\* A failed manifest reported and skipped, as a data file is.
ManifestFailSkipped(i) ==
  /\ pc = "resolve"
  /\ manifestPromises[i].state = "pending"
  /\ manifestPromises' = [manifestPromises EXCEPT ![i] = Fulfilled(<<>>)]
  /\ Post(Text("Error processing manifest"))
  /\ settled' = <<>>
  /\ UNCHANGED <<env, pc, segmentData, lastUpdatedDate, daysToProcess,
                 dayProcessingPromises, allManifestUrls, allFileUrls,
                 domainPromises, domains, patchOperation, patched, statusCode>>

\* Fetching or parsing manifest i failed (a manifest that is not found has
\* no Body to read): reported twice, the run rejects.
ManifestFail(i) ==
  /\ pc = "resolve"
  /\ manifestPromises[i].state = "pending"
  /\ slack' = slack (+) SetToBag({Text("Error processing manifest"),
                                  Text("Error processing data From S3")})
  /\ pc' = "rejected"
  /\ settled' = <<>>
  /\ UNCHANGED <<env, segmentData, lastUpdatedDate, daysToProcess, dayProcessingPromises,
                 allManifestUrls, manifestPromises, allFileUrls, domainPromises,
                 domains, patchOperation, patched, statusCode>>

\* Every manifest resolved: the data files are requested.
ManifestsJoined ==
  /\ pc = "resolve"
  /\ AllFulfilled(manifestPromises)
  /\ allFileUrls' = Flat([i \in DOMAIN manifestPromises |-> manifestPromises[i].value])
  /\ domainPromises' = AllPending(Len(allFileUrls'))
  /\ pc' = "extract"
  /\ settled' = <<>>
  /\ UNCHANGED <<env, segmentData, lastUpdatedDate, daysToProcess, dayProcessingPromises,
                 allManifestUrls, manifestPromises, domains, patchOperation,
                 patched, slack, statusCode>>

\* Data file i was fetched, unzipped and parsed.
FileOk(i) ==
  /\ pc = "extract"
  /\ domainPromises[i].state = "pending"
  /\ domainPromises' = [domainPromises EXCEPT ![i] = Fulfilled(Rows(allFileUrls[i]))]
  /\ UNCHANGED <<env, pc, segmentData, lastUpdatedDate, daysToProcess,
                 dayProcessingPromises, settled, allManifestUrls, manifestPromises,
                 allFileUrls, domains, patchOperation, patched, slack, statusCode>>

\* A missing data file rejecting the run.
FileMissingRejects(i) ==
  /\ pc = "extract"
  /\ domainPromises[i].state = "pending"
  /\ slack' = slack (+) SetToBag({Text("is empty or missing. Skipping..."),
                                  Text("Error processing data From S3")})
  /\ pc' = "rejected"
  /\ UNCHANGED <<env, segmentData, lastUpdatedDate, daysToProcess, dayProcessingPromises,
                 settled, allManifestUrls, manifestPromises, allFileUrls, domainPromises,
                 domains, patchOperation, patched, statusCode>>

\* Data file i is missing (GetObject answered [] for NoSuchKey, or no Body).
FileMissing(i) ==
  /\ pc = "extract"
  /\ domainPromises[i].state = "pending"
  /\ domainPromises' = [domainPromises EXCEPT ![i] = Fulfilled(<<>>)]
  /\ Post(Text("is empty or missing. Skipping..."))
  /\ UNCHANGED <<env, pc, segmentData, lastUpdatedDate, daysToProcess,
                 dayProcessingPromises, settled, allManifestUrls, manifestPromises,
                 allFileUrls, domains, patchOperation, patched, statusCode>>

\* The fetch of data file i failed with another error than NoSuchKey:
\* GetObject rejects, the task logs to the console and returns [].
FileError(i) ==
  /\ pc = "extract"
  /\ domainPromises[i].state = "pending"
  /\ domainPromises' = [domainPromises EXCEPT ![i] = Fulfilled(<<>>)]
  /\ UNCHANGED <<env, pc, segmentData, lastUpdatedDate, daysToProcess,
                 dayProcessingPromises, settled, allManifestUrls, manifestPromises,
                 allFileUrls, domains, patchOperation, patched, slack, statusCode>>

\* The CSV parser failed on data file i: the iteration throws,
\* unzipAndParseCSV reports it and rejects, and the task returns [].
FileParseError(i) ==
  /\ pc = "extract"
  /\ domainPromises[i].state = "pending"
  /\ domainPromises' = [domainPromises EXCEPT ![i] = Fulfilled(<<>>)]
  /\ Post(Text("Error during unzipping or parsing CSV data"))
  /\ UNCHANGED <<env, pc, segmentData, lastUpdatedDate, daysToProcess,
                 dayProcessingPromises, settled, allManifestUrls, manifestPromises,
                 allFileUrls, domains, patchOperation, patched, statusCode>>

\* Data file i is no valid gzip: the gunzip stream emits 'error'. pipe()
\* forwards no error and the stream has no listener of its own (the
\* iteration listens on the parser only), so the event is thrown as an
\* uncaught exception: the process ends, whatever the other tasks were
\* doing, with no notification and no response.
FileCorrupt(i) ==
  /\ pc = "extract"
  /\ domainPromises[i].state = "pending"
  /\ pc' = "crashed"
  /\ UNCHANGED <<env, segmentData, lastUpdatedDate, daysToProcess, dayProcessingPromises,
                 settled, allManifestUrls, manifestPromises, allFileUrls, domainPromises,
                 domains, patchOperation, patched, slack, statusCode>>

\* Every file task returned and no domain is new: the success message with
\* count 0 and the watermark the run started from; the workflow resolves.
\* The message is awaited inside the first try: were it to reject, the
\* catch would report and reject.
NoNewDomains ==
  /\ pc = "extract"
  /\ AllFulfilled(domainPromises)
  /\ domains' = dedupe([i \in DOMAIN domainPromises |-> domainPromises[i].value])
  /\ ~hasNewDomains(domains')
  /\ IF sendSlackMessage(webhook) = "fulfilled"
     THEN /\ Post(zeroSuccessMessage(lastUpdatedDate))
          /\ pc' = "resolved"
     ELSE /\ slack' = slack (+) SetToBag({zeroSuccessMessage(lastUpdatedDate),
                                          Text("Error processing data From S3")})
          /\ pc' = "rejected"
  /\ UNCHANGED <<env, segmentData, lastUpdatedDate, daysToProcess, dayProcessingPromises,
                 settled, allManifestUrls, manifestPromises, allFileUrls, domainPromises,
                 patchOperation, patched, statusCode>>

\* The PATCH sent without waiting for every file task.
SendPatchEarly ==
  /\ pc = "extract"
  /\ domains' = dedupe([i \in DOMAIN domainPromises |-> domainPromises[i].value])
  /\ hasNewDomains(domains')
  /\ lastUpdatedDate' = updateLastUpdatedDate(allFileUrls, lastUpdatedDate)
  /\ IF allFileUrls # <<>> /\ ~validNumericPart(numericPartOf(lastOf(allFileUrls)))
     THEN Post(Text("Invalid numeric part format"))
     ELSE UNCHANGED slack
  /\ patchOperation' = buildPatchOperation(segmentData, domains', lastUpdatedDate', Limit)
  /\ patched' = Append(patched, patchOperation')
  /\ pc' = "patching"
  /\ UNCHANGED <<env, segmentData, daysToProcess, dayProcessingPromises, settled,
                 allManifestUrls, manifestPromises, allFileUrls, domainPromises,
                 statusCode>>

\* Every file task returned and there are new domains: the watermark is
\* recomputed, the patch operations are built and the PATCH is sent.
SendPatch ==
  /\ pc = "extract"
  /\ AllFulfilled(domainPromises)
  /\ domains' = dedupe([i \in DOMAIN domainPromises |-> domainPromises[i].value])
  /\ hasNewDomains(domains')
  /\ lastUpdatedDate' = updateLastUpdatedDate(allFileUrls, lastUpdatedDate)
  /\ IF allFileUrls # <<>> /\ ~validNumericPart(numericPartOf(lastOf(allFileUrls)))
     THEN IF sendSlackMessage(webhook) = "fulfilled"
          THEN /\ Post(Text("Invalid numeric part format"))
               /\ patchOperation' =
                    buildPatchOperation(segmentData, domains', lastUpdatedDate', Limit)
               /\ patched' = Append(patched, patchOperation')
               /\ pc' = "patching"
          ELSE /\ slack' = slack (+) SetToBag({Text("Invalid numeric part format"),
                                               Text("Error processing data From S3")})
               /\ pc' = "rejected"
               /\ UNCHANGED <<patchOperation, patched>>
     ELSE /\ UNCHANGED slack
          /\ patchOperation' =
               buildPatchOperation(segmentData, domains', lastUpdatedDate', Limit)
          /\ patched' = Append(patched, patchOperation')
          /\ pc' = "patching"
  /\ UNCHANGED <<env, segmentData, daysToProcess, dayProcessingPromises, settled,
                 allManifestUrls, manifestPromises, allFileUrls, domainPromises,
                 statusCode>>

\* An acknowledged PATCH reported with the size of the merged list.
PatchOkMergedCount ==
  /\ pc = "patching"
  /\ segment' = [segment EXCEPT !.rules = ApplyPatch(segment.rules, patchOperation)]
  /\ Post(formatMessage("Success", lastUpdatedDate,
                        Len(updatedEmailDomains(segmentData, domains))))
  /\ pc' = "resolved"
  /\ UNCHANGED <<store, Limit, last, webhook, segmentData, lastUpdatedDate, daysToProcess, dayProcessingPromises,
                 settled, allManifestUrls, manifestPromises, allFileUrls, domainPromises,
                 domains, patchOperation, patched, statusCode>>

\* The PATCH was acknowledged: the segment holds the patched rules; the
\* success message, the workflow resolves. The message is awaited inside
\* the second try: were it to reject, the catch would report and reject.
PatchOk ==
  /\ pc = "patching"
  /\ segment' = [segment EXCEPT !.rules = ApplyPatch(segment.rules, patchOperation)]
  /\ IF sendSlackMessage(webhook) = "fulfilled"
     THEN /\ Post(formatMessage("Success", lastUpdatedDate, Len(domains)))
          /\ pc' = "resolved"
     ELSE /\ slack' = slack (+) SetToBag({formatMessage("Success", lastUpdatedDate,
                                                        Len(domains)),
                                          Text("Error Patching dates")})
          /\ pc' = "rejected"
  /\ UNCHANGED <<store, Limit, last, webhook, segmentData, lastUpdatedDate, daysToProcess, dayProcessingPromises,
                 settled, allManifestUrls, manifestPromises, allFileUrls, domainPromises,
                 domains, patchOperation, patched, statusCode>>

\* The PATCH failed and the workflow goes on without the return on
\* resp.isError.
PatchFailNoReturn ==
  /\ pc = "patching"
  /\ slack' = slack (+) SetToBag({Text("PATCH request failed"),
                                  formatMessage("Success", lastUpdatedDate, Len(domains))})
  /\ pc' = "resolved"
  /\ UNCHANGED <<env, segmentData, lastUpdatedDate, daysToProcess, dayProcessingPromises,
                 settled, allManifestUrls, manifestPromises, allFileUrls, domainPromises,
                 domains, patchOperation, patched, statusCode>>

\* The PATCH failed (a non-2xx answer or a transport error): sendDataToApi
\* reports it and answers isError, and the workflow returns.
PatchFail ==
  /\ pc = "patching"
  /\ Post(Text("PATCH request failed"))
  /\ pc' = "resolved"
  /\ UNCHANGED <<env, segmentData, lastUpdatedDate, daysToProcess, dayProcessingPromises,
                 settled, allManifestUrls, manifestPromises, allFileUrls, domainPromises,
                 domains, patchOperation, patched, statusCode>>

\* The statusCode of the handler's response.
responseStatus(workflowResolved) == IF workflowResolved THEN 200 ELSE 500

\* handler: the workflow resolved.
HandlerSuccess ==
  /\ pc = "resolved"
  /\ statusCode' = responseStatus(TRUE)
  /\ pc' = "returned"
  /\ UNCHANGED <<env, segmentData, lastUpdatedDate, daysToProcess, dayProcessingPromises,
                 settled, allManifestUrls, manifestPromises, allFileUrls, domainPromises,
                 domains, patchOperation, patched, slack>>

\* A handler whose catch reports the failure and throws the error again.
HandlerFailureRethrows ==
  /\ pc = "rejected"
  /\ Post(Text("Status: Failed - 500 Internal Server Error"))
  /\ pc' = "crashed"
  /\ UNCHANGED <<env, segmentData, lastUpdatedDate, daysToProcess, dayProcessingPromises,
                 settled, allManifestUrls, manifestPromises, allFileUrls, domainPromises,
                 domains, patchOperation, patched, statusCode>>

\* handler: the workflow rejected. The message is awaited inside the
\* catch: were it to reject, the handler would reject without a response.
HandlerFailure ==
  /\ pc = "rejected"
  /\ Post(Text("Status: Failed - 500 Internal Server Error"))
  /\ IF sendSlackMessage(webhook) = "fulfilled"
     THEN /\ statusCode' = responseStatus(FALSE)
          /\ pc' = "returned"
     ELSE /\ pc' = "crashed"
          /\ UNCHANGED statusCode
  /\ UNCHANGED <<env, segmentData, lastUpdatedDate, daysToProcess, dayProcessingPromises,
                 settled, allManifestUrls, manifestPromises, allFileUrls, domainPromises,
                 domains, patchOperation, patched>>

\* The next invocation in a process whose manifest list is a variable of
\* the module, as in the earlier single-file workflow: the list survives.
RestartKeepsManifests ==
  /\ pc \in {"returned", "crashed"}
  /\ SegmentSize(segment.rules) <= MaxValues
  /\ last' = RunRecord
  /\ pc' = "start"
  /\ segmentData' = [rules |-> <<>>]
  /\ lastUpdatedDate' = NoDesc
  /\ daysToProcess' = <<>>
  /\ dayProcessingPromises' = <<>>
  /\ settled' = <<>>
  /\ manifestPromises' = <<>>
  /\ allFileUrls' = <<>>
  /\ domainPromises' = <<>>
  /\ domains' = <<>>
  /\ patchOperation' = <<>>
  /\ patched' = <<>>
  /\ slack' = EmptyBag
  /\ statusCode' = 0
  /\ UNCHANGED <<segment, store, Limit, webhook, allManifestUrls>>

\* The next scheduled invocation of the handler: a fresh workflow.
Restart ==
  /\ pc \in {"returned", "crashed"}
  /\ SegmentSize(segment.rules) <= MaxValues
  /\ last' = RunRecord
  /\ pc' = "start"
  /\ segmentData' = [rules |-> <<>>]
  /\ lastUpdatedDate' = NoDesc
  /\ daysToProcess' = <<>>
  /\ dayProcessingPromises' = <<>>
  /\ settled' = <<>>
  /\ allManifestUrls' = <<>>
  /\ manifestPromises' = <<>>
  /\ allFileUrls' = <<>>
  /\ domainPromises' = <<>>
  /\ domains' = <<>>
  /\ patchOperation' = <<>>
  /\ patched' = <<>>
  /\ slack' = EmptyBag
  /\ statusCode' = 0
  /\ UNCHANGED <<segment, store, Limit, webhook>>

Next ==
  \/ FetchOk
  \/ FetchFail
  \/ \E i \in DOMAIN dayProcessingPromises : ListOk(i)
  \/ \E i \in DOMAIN dayProcessingPromises : ListFail(i)
  \/ DaysJoined
  \/ \E i \in DOMAIN manifestPromises : ManifestOk(i)
  \/ \E i \in DOMAIN manifestPromises : ManifestFail(i)
  \/ ManifestsJoined
  \/ \E i \in DOMAIN domainPromises : FileOk(i)
  \/ \E i \in DOMAIN domainPromises : FileMissing(i)
  \/ \E i \in DOMAIN domainPromises : FileError(i)
  \/ \E i \in DOMAIN domainPromises : FileParseError(i)
  \/ \E i \in DOMAIN domainPromises : FileCorrupt(i)
  \/ NoNewDomains
  \/ SendPatch
  \/ PatchOk
  \/ PatchFail
  \/ HandlerSuccess
  \/ HandlerFailure
  \/ Restart

Spec == Init /\ [][Next]_vars

\* The read of the watermark and the enumeration of the days, on any
\* segment.
NextRules == FetchOk

SpecRules == InitRules /\ [][NextRules]_vars

SpecWide == InitWide /\ [][Next]_vars

\* One invocation, from its start to its end.
NextRun ==
  \/ FetchOk
  \/ FetchFail
  \/ \E i \in DOMAIN dayProcessingPromises : ListOk(i)
  \/ \E i \in DOMAIN dayProcessingPromises : ListFail(i)
  \/ DaysJoined
  \/ \E i \in DOMAIN manifestPromises : ManifestOk(i)
  \/ \E i \in DOMAIN manifestPromises : ManifestFail(i)
  \/ ManifestsJoined
  \/ \E i \in DOMAIN domainPromises : FileOk(i)
  \/ \E i \in DOMAIN domainPromises : FileMissing(i)
  \/ \E i \in DOMAIN domainPromises : FileError(i)
  \/ \E i \in DOMAIN domainPromises : FileParseError(i)
  \/ \E i \in DOMAIN domainPromises : FileCorrupt(i)
  \/ NoNewDomains
  \/ SendPatch
  \/ PatchOk
  \/ PatchFail
  \/ HandlerSuccess
  \/ HandlerFailure

\* One invocation in which every external call (GET, list, get, PATCH,
\* notify) eventually returns or fails and the event loop then runs the
\* continuation that waits for it: a step that can be taken is taken.
SpecFair == InitWide /\ [][NextRun]_vars /\ WF_vars(NextRun)

\* ================================================================= claims
\* The watermark the run read from the fetched segment: the instant of the
\* first rule description that is a date, else the fallback date.
ReadWatermark ==
  LET valid == {j \in DOMAIN segmentData.rules : IsValidDesc(segmentData.rules[j].description)}
  IN IF valid = {} THEN FallbackDate
     ELSE ParseDesc(segmentData.rules[CHOOSE j \in valid : \A k \in valid : j <= k].description)

\* The manifests the bucket holds for a day.
ManifestsOfDay(d) ==
  {k \in store : k[2] = FormatYear(d) /\ k[3] = FormatMonth(d) /\ k[4] = FormatDay(d)}

ScanDone(i) == i \in DOMAIN dayProcessingPromises /\ dayProcessingPromises[i].state = "fulfilled"

Collected(i) == SeqToSet(dayProcessingPromises[i].value)

\* The PATCH body of the run has been built and sent.
PatchBuilt == patched # <<>>

\* The values of the existing first rule, as the spec reads them.
ExistingOfFetched ==
  IF segmentData.rules = <<>> THEN <<>> ELSE segmentData.rules[1].clauses[1].values

ValuesOf(operation) == operation.value.clauses[1].values

\* C1: on the watermark's own day a manifest is collected if and only if
\* its time token is strictly greater, as a string, than the watermark's
\* time of day written HHmmss0000; an equal or smaller token is never
\* collected.
C1_IntraDayBoundary ==
  \A i \in DOMAIN dayProcessingPromises :
    (ScanDone(i) /\ daysToProcess[i] = ReadWatermark.day) =>
      \A k \in ManifestsOfDay(daysToProcess[i]) :
        (k \in Collected(i)) <=> StrGreater(k[5], Token(ReadWatermark.time))

C1_Witness ==
  \E i \in DOMAIN dayProcessingPromises :
    /\ ScanDone(i)
    /\ daysToProcess[i] = ReadWatermark.day
    /\ \E k1, k2 \in ManifestsOfDay(daysToProcess[i]) :
         /\ k1[5] = Token(ReadWatermark.time)
         /\ k1 \notin Collected(i)
         /\ StrGreater(k2[5], Token(ReadWatermark.time))
         /\ k2 \in Collected(i)

\* C2: on every scanned day other than the watermark's day, every
\* manifest of that day is collected whatever its time token, the token
\* 0000000000 of a manifest written at midnight included.
C2_OtherDaysWhole ==
  \A i \in DOMAIN dayProcessingPromises :
    (ScanDone(i) /\ daysToProcess[i] # ReadWatermark.day) =>
      \A k \in ManifestsOfDay(daysToProcess[i]) : k \in Collected(i)

\* C3: when the merged value count n exceeds the limit L, the run builds
\* exactly ceil(n / L) patch operations, each carrying at most L values.
C3_ChunkCount ==
  LET n == Len(ExistingOfFetched) + Len(domains)
      L == NumVal(Limit)
  IN (PatchBuilt /\ n > L) =>
       /\ Len(patchOperation) = (n + L - 1) \div L
       /\ \A j \in DOMAIN patchOperation : Len(ValuesOf(patchOperation[j])) <= L

\* C4: the first patch operation is 'replace' when the fetched segment had
\* a rule and 'add' otherwise, and every later operation is 'add'.
C4_OperationTypes ==
  \A r \in DOMAIN patched :
    /\ patched[r][1].op = (IF segmentData.rules # <<>> THEN "replace" ELSE "add")
    /\ \A j \in 2 .. Len(patched[r]) : patched[r][j].op = "add"

C4_Witness ==
  /\ PatchBuilt
  /\ Len(patched[1]) >= 2
  /\ patched[1][1].op = "replace"
  /\ patched[1][2].op = "add"

\* C5: when the merged value count is at most the limit, exactly one patch
\* operation is sent and it carries all merged values.
C5_SingleOperation ==
  (PatchBuilt /\ Len(ExistingOfFetched) + Len(domains) <= NumVal(Limit)) =>
    /\ Len(patched) = 1
    /\ Len(patched[1]) = 1
    /\ ValuesOf(patched[1][1]) = ExistingOfFetched \o domains

C5_Witness ==
  /\ PatchBuilt
  /\ segmentData.rules # <<>>
  /\ Len(ExistingOfFetched) + Len(domains) <= NumVal(Limit)
  /\ Len(patched[1]) = 1
  /\ Len(ValuesOf(patched[1][1])) > Len(domains)

\* C6: the merged list the run writes, read off its patch operations in
\* order, is the existing values of rules[0].clauses[0] followed by the new
\* domains when the segment has a rule, and the new domains alone otherwise.
C6_MergedList ==
  PatchBuilt =>
    Flat([j \in DOMAIN patchOperation |-> ValuesOf(patchOperation[j])])
      = (IF segmentData.rules # <<>>
         THEN segmentData.rules[1].clauses[1].values \o domains
         ELSE domains)

C6_Witness ==
  /\ PatchBuilt
  /\ segmentData.rules # <<>>
  /\ Len(domains) >= 2
  /\ Len(segmentData.rules[1].clauses[1].values) = 3
  /\ ValuesOf(patchOperation[1])[1] = "e1.com"

\* The values extracted from the data files of the run, file by file.
Extracted == Flat([i \in DOMAIN domainPromises |-> domainPromises[i].value])

\* Every file task of the run has returned and the domain list was built.
DomainsBuilt == pc \in {"patching", "resolved", "returned"} /\ allFileUrls # <<>>

SuccessMessages == {m \in BagToSet(slack) : m.type = "Success"}

\* No stage of the run reported a failure.
NoStageFailed ==
  \A m \in BagToSet(slack) :
    m.type \notin {"GET request failed", "Error processing data From S3",
                   "Error processing data From S3: true",
                   "Error processing manifest", "PATCH request failed"}

\* The timestamp in the path of a data-file URL: segments 4 to 6 are the
\* date and the first six digits of segment 7 the time.
TimestampOf(url) ==
  Instant(FromYMD(<<NumVal(url[5]), NumVal(url[6]), NumVal(url[7])>>),
          <<10 * url[8][1] + url[8][2], 10 * url[8][3] + url[8][4],
            10 * url[8][5] + url[8][6]>>)

\* The (year, month, day, time token) key of a data-file URL.
OrderKey(url) == url[5] \o url[6] \o url[7] \o url[8]

\* C7: the new domains carried into the merge hold no null or empty value
\* and no value twice, and are as a set the non-empty values extracted from
\* the run's data files; extracted a.com, b.com, a.com, null, '' give
\* exactly {a.com, b.com}.
C7_Deduplicated ==
  DomainsBuilt =>
    /\ \A i \in DOMAIN domains : domains[i] # Null /\ domains[i] # ""
    /\ \A i, j \in DOMAIN domains : domains[i] = domains[j] => i = j
    /\ SeqToSet(domains) = SeqToSet(Extracted) \ {Null, ""}
    /\ (Extracted = <<"a.com", "b.com", "a.com", Null, "">>) =>
         (Len(domains) = 2 /\ SeqToSet(domains) = {"a.com", "b.com"})

C7_Witness ==
  /\ DomainsBuilt
  /\ Extracted = <<"a.com", "b.com", "a.com", Null, "">>
  /\ SeqToSet(domains) = {"a.com", "b.com"}

\* C8: in a run whose files yield no non-empty domain, no PATCH request is
\* ever sent.
C8_NoPatchWhenEmpty ==
  (AllFulfilled(domainPromises) /\ SeqToSet(Extracted) \ {Null, ""} = {}) => patched = <<>>

C8_Witness ==
  /\ pc = "resolved"
  /\ allFileUrls # <<>>
  /\ Extracted # <<>>
  /\ SeqToSet(Extracted) \ {Null, ""} = {}
  /\ patched = <<>>

\* C9: a run with no new domain in which no stage failed ends with status
\* 200 and has sent exactly one success notification, with count 0 and the
\* watermark it read at its start.
C9_EmptyRunSucceeds ==
  (pc = "returned" /\ NoStageFailed /\ SeqToSet(Extracted) \ {Null, ""} = {}) =>
    /\ statusCode = 200
    /\ SuccessMessages = {formatMessage("Success", FormatLong(ReadWatermark), 0)}
    /\ CopiesIn(formatMessage("Success", FormatLong(ReadWatermark), 0), slack) = 1
    /\ lastUpdatedDate = DateObject(ReadWatermark)

C9_Witness ==
  /\ pc = "returned"
  /\ statusCode = 200
  /\ NoStageFailed
  /\ allManifestUrls # <<>>
  /\ domains = <<>>
  /\ CopiesIn(formatMessage("Success", FormatLong(ReadWatermark), 0), slack) = 1

\* C10: the new watermark of a run is the timestamp in the path of the
\* greatest (year, month, day, time token) data-file reference of the run,
\* in whatever order the day scans, manifest fetches and file fetches
\* returned.
C10_LatestFileWatermark ==
  PatchBuilt =>
    \E u \in SeqToSet(allFileUrls) :
      /\ \A v \in SeqToSet(allFileUrls) : ~StrLess(OrderKey(u), OrderKey(v))
      /\ lastUpdatedDate = FormatLong(TimestampOf(u))
      /\ \A j \in DOMAIN patchOperation :
           patchOperation[j].value.description = FormatLong(TimestampOf(u))

C10_Witness ==
  /\ PatchBuilt
  /\ Len(daysToProcess) >= 2
  /\ \E u, v \in SeqToSet(allFileUrls) : StrLess(OrderKey(u), OrderKey(v)) /\ u[7] # v[7]
  /\ lastUpdatedDate = FormatLong(TimestampOf(allFileUrls[Len(allFileUrls)]))

\* a is not later than b.
InstantLeq(a, b) ==
  \/ a.day < b.day
  \/ /\ a.day = b.day
     /\ \/ a.time[1] < b.time[1]
        \/ a.time[1] = b.time[1] /\ a.time[2] < b.time[2]
        \/ a.time[1] = b.time[1] /\ a.time[2] = b.time[2] /\ a.time[3] <= b.time[3]

\* The watermark a segment stores, as the next run will read it.
StoredWatermark(seg) == ParseDesc(setLastUpdateDateFromSegment(seg))

\* The run has changed the segment it fetched.
SegmentWritten ==
  pc \in {"resolved", "returned"} /\ patched # <<>> /\ segment # segmentData

\* C11: the segment changes only when a run's PATCH is acknowledged, it
\* then still is the segment the run fetched (so a run changes it at most
\* once), and the watermark it stores afterwards is not earlier than the
\* watermark the run read, nor than the one stored before.
C11_WatermarkNeverBackward ==
  [][segment' # segment =>
       /\ pc = "patching"
       /\ segment = segmentData
       /\ InstantLeq(ReadWatermark, StoredWatermark(segment'))
       /\ InstantLeq(StoredWatermark(segment), StoredWatermark(segment'))]_vars

C11_Witness ==
  /\ SegmentWritten
  /\ last.outcome = "patchfail"
  /\ StoredWatermark(segment) # ReadWatermark
  /\ InstantLeq(ReadWatermark, StoredWatermark(segment))

\* The values of all the rules of a segment.
SegmentValues(seg) ==
  UNION {SeqToSet(seg.rules[j].clauses[1].values) : j \in DOMAIN seg.rules}

\* The instant in the path of a manifest: that of the files next to it.
ManifestInstant(m) == TimestampOf(Entries(m)[1])

\* C12: once a run has written the segment, every data file of every
\* manifest of the bucket that lies after the watermark the run read and at
\* or before the watermark it stored has all its domains among the values
\* of the segment's rules.
C12_IncorporatedUpToWatermark ==
  SegmentWritten =>
    \A m \in store :
      (/\ ~InstantLeq(ManifestInstant(m), ReadWatermark)
       /\ InstantLeq(ManifestInstant(m), StoredWatermark(segment))) =>
        \A j \in DOMAIN Entries(m) :
          SeqToSet(compact(Rows(Entries(m)[j]))) \subseteq SegmentValues(segment)

\* The previous run ended with a success status, and every data file it
\* asked for was in the bucket.
AfterSuccessfulRun == last.outcome = "success" \/ (last.outcome = "empty" /\ ~last.missing)

\* C13: a run started after a run that ended with a success status, the
\* bucket holding the same objects, finds no new domain, sends no PATCH and
\* leaves the segment, and so the stored watermark, unchanged.
C13_RerunAfterSuccess ==
  /\ [](AfterSuccessfulRun => (domains = <<>> /\ patched = <<>> /\ pc # "patching"))
  /\ [][AfterSuccessfulRun => segment' = segment]_vars

\* The run sent its PATCH and the segment is as the run fetched it: the
\* PATCH failed.
PatchFailed == pc \in {"resolved", "returned"} /\ patched # <<>> /\ segment = segmentData

AfterFailedPatch == last.outcome = "patchfail" /\ last.clean

\* C15: a run whose PATCH failed leaves the segment as it fetched it; the
\* next run, the bucket holding the same objects, reads the watermark the
\* failed run had read and finds the set of domains the failed run had
\* found.
C15_FailedPatchRetried ==
  /\ (CopiesIn(Text("PATCH request failed"), slack) > 0) =>
       (segment = segmentData /\ StoredWatermark(segment) = ReadWatermark)
  /\ (AfterFailedPatch /\ daysToProcess # <<>>) => ReadWatermark = last.read
  /\ (AfterFailedPatch /\ DomainsBuilt /\ ~RunMissing) =>
       SeqToSet(domains) = SeqToSet(last.domains)

\* C16: a run in which a stage reported a failure (the rule GET, a day's
\* listing, a manifest, the PATCH) ends with the handler answering 500,
\* not 200.
C16_ErrorsFailTheRun ==
  (pc = "returned" /\ ~NoStageFailed) => statusCode = 500

\* The run ended as a success that wrote its new domains and advanced the
\* watermark.
EndedWritten ==
  /\ statusCode = 200
  /\ Len(domains) > 0
  /\ \E m \in SuccessMessages : m.count = Len(domains)
  /\ segment # segmentData
  /\ SeqToSet(domains) \subseteq SegmentValues(segment)
  /\ ~InstantLeq(StoredWatermark(segment), ReadWatermark)

\* The run ended as a success without new domains, the watermark unchanged.
EndedEmpty ==
  /\ statusCode = 200
  /\ domains = <<>>
  /\ \E m \in SuccessMessages : m.count = 0
  /\ patched = <<>>
  /\ segment = segmentData

\* The run ended as a failure, reported, the segment untouched.
EndedFailed ==
  /\ statusCode = 500
  /\ ~NoStageFailed
  /\ SuccessMessages = {}
  /\ patched = <<>>

\* C17: when the handler has returned, the run is in exactly one of the
\* three outcomes: written, empty or failed.
C17_ThreeOutcomes ==
  pc = "returned" =>
    \/ EndedWritten /\ ~EndedEmpty /\ ~EndedFailed
    \/ ~EndedWritten /\ EndedEmpty /\ ~EndedFailed
    \/ ~EndedWritten /\ ~EndedEmpty /\ EndedFailed

\* The files of the run that contributed nothing.
EmptyFiles == {i \in DOMAIN domainPromises : domainPromises[i] = Fulfilled(<<>>)}

MissingPosts == CopiesIn(Text("is empty or missing. Skipping..."), slack)

\* C18: a 'not found' answer for a data file does not fail the run, and
\* when it was the only file of the N that contributed nothing, the
\* domain list is that of the rows of the other N - 1 files.
C18_MissingFileSkipped ==
  /\ RunMissing => (pc # "rejected" /\ statusCode # 500)
  /\ (DomainsBuilt /\ MissingPosts = 1 /\ Cardinality(EmptyFiles) = 1) =>
       /\ \A i \in DOMAIN domainPromises \ EmptyFiles :
            domainPromises[i] = Fulfilled(Rows(allFileUrls[i]))
       /\ SeqToSet(domains) =
            UNION {SeqToSet(compact(Rows(allFileUrls[i]))) :
                     i \in DOMAIN domainPromises \ EmptyFiles}

C18_Witness ==
  /\ pc = "returned"
  /\ statusCode = 200
  /\ MissingPosts = 1
  /\ Cardinality(EmptyFiles) = 1
  /\ Len(allFileUrls) >= 3
  /\ Len(domains) > 0

\* C19: a run that reached the extraction of its data files neither is
\* rejected nor crashes; a file task that has returned keeps its result
\* whatever its siblings do; every file contributes its rows or nothing;
\* and when no file was missing, so that the empty contributions are
\* errors, the domain list is that of the rows of the files that did not
\* fail.
C19_FileErrorIsolated ==
  /\ [](allFileUrls # <<>> => (pc \notin {"rejected", "crashed"} /\ statusCode # 500))
  /\ [][pc' # "start" =>
         \A i \in DOMAIN domainPromises :
           domainPromises[i].state = "fulfilled" => domainPromises'[i] = domainPromises[i]]_vars
  /\ [](DomainsBuilt =>
         \A i \in DOMAIN domainPromises :
           domainPromises[i] \in {Fulfilled(<<>>), Fulfilled(Rows(allFileUrls[i]))})
  /\ []((DomainsBuilt /\ MissingPosts = 0) =>
         SeqToSet(domains) =
           UNION {SeqToSet(compact(Rows(allFileUrls[i]))) :
                    i \in DOMAIN domainPromises \ EmptyFiles})

ManifestFailurePosts == CopiesIn(Text("Error processing manifest"), slack)

\* C20: a run in which a manifest failed has reported it, is rejected, has
\* sent no PATCH and has left the segment alone, and the handler answers
\* 500, whatever the other manifests did.
C20_ManifestFailureAborts ==
  ManifestFailurePosts > 0 =>
    /\ pc \in {"rejected", "returned"}
    /\ pc = "returned" => statusCode = 500
    /\ CopiesIn(Text("Error processing data From S3"), slack) = 1
    /\ patched = <<>>
    /\ allFileUrls = <<>>
    /\ SuccessMessages = {}

C20_Witness ==
  /\ ManifestFailurePosts = 1
  /\ pc = "returned"
  /\ statusCode = 500
  /\ Len(manifestPromises) >= 2
  /\ \E i \in DOMAIN manifestPromises : manifestPromises[i].state = "pending"
  /\ \A i, j \in DOMAIN manifestPromises :
       (manifestPromises[i].state = "pending" /\ manifestPromises[j].state = "pending") => i = j

\* The run was rejected while its days were being listed.
ListingFailed ==
  /\ daysToProcess # <<>>
  /\ manifestPromises = <<>>
  /\ pc = "rejected" \/ (pc = "returned" /\ statusCode = 500)

\* C21: a run in which the listing of a day failed has posted the message
\* that names the folder and the error, 'Error processing List at ...', has
\* asked for no manifest, has sent no PATCH, and the handler answers 500.
C21_ListingFailureReported ==
  ListingFailed =>
    /\ CopiesIn(Text("Error processing List"), slack) > 0
    /\ allManifestUrls = <<>>
    /\ patched = <<>>
    /\ pc = "returned" => statusCode = 500

\* The GET of the run failed: fetchDataFromApi reported it.
GetFailed == CopiesIn(Text("GET request failed"), slack) > 0

\* C22: a run whose GET failed lists no day, asks for no manifest and no
\* data file, sends no PATCH and ends with status 500; and a run leaves
\* its start either with the segment fetched or rejected with the GET
\* failure reported.
C22_GetFailureStops ==
  /\ [](GetFailed =>
          /\ pc \in {"rejected", "returned"}
          /\ daysToProcess = <<>>
          /\ dayProcessingPromises = <<>>
          /\ manifestPromises = <<>>
          /\ domainPromises = <<>>
          /\ patched = <<>>
          /\ pc = "returned" => statusCode = 500)
  /\ [][pc = "start" /\ pc' # "scan" => pc' = "rejected" /\ GetFailed']_vars

C22_Witness == GetFailed /\ pc = "returned" /\ statusCode = 500

\* The distinct non-empty domains extracted by the run.
NewDomainsOfRun == SeqToSet(Extracted) \ {"", Null}

\* C23: a step of a run with new domains that posts a success message is
\* the step in which the PATCH that was sent is acknowledged and applied to
\* the segment; the message carries the number of distinct non-empty
\* domains extracted by the run and the description every operation of the
\* patch writes.
C23_SuccessAfterAcknowledgedPatch ==
  [][\A m \in BagToSet(slack') :
       (m.type = "Success" /\ CopiesIn(m, slack') > CopiesIn(m, slack) /\ domains' # <<>>) =>
         /\ pc = "patching" /\ pc' = "resolved"
         /\ patched = <<patchOperation>>
         /\ segment'.rules = ApplyPatch(segment.rules, patchOperation)
         /\ CopiesIn(Text("PATCH request failed"), slack') = 0
         /\ m.count = Cardinality(NewDomainsOfRun)
         /\ patchOperation # <<>>
         /\ \A k \in DOMAIN patchOperation :
              patchOperation[k].value.description = m.watermark]_vars

\* A success message of a run that merged three new domains, one of which
\* was already known, into a rule of three values.
C23_Witness ==
  /\ pc = "resolved"
  /\ hasRules(segmentData)
  /\ Cardinality(NewDomainsOfRun) = 3
  /\ Len(updatedEmailDomains(segmentData, domains)) = 6
  /\ \E m \in SuccessMessages : m.count = 3 /\ m.watermark = lastUpdatedDate

\* An object-store call of the run has been issued: a listing, a manifest
\* or a data file was requested.
ObjectStoreCalled ==
  dayProcessingPromises # <<>> \/ manifestPromises # <<>> \/ domainPromises # <<>>

\* C24: a run leaves its start only by its one GET, a new run starts only
\* after the previous one ended, and the fetched segment never changes
\* afterwards; no object-store call is issued at the start; a run sends at
\* most one PATCH, and when it was sent every listing, every manifest and
\* every data file of the run had returned.
C24_ReadOnceWriteOnce ==
  /\ [](pc = "start" => ~ObjectStoreCalled /\ patched = <<>>)
  /\ [](Len(patched) <= 1)
  /\ [](patched # <<>> =>
          /\ dayProcessingPromises # <<>>
          /\ AllFulfilled(dayProcessingPromises)
          /\ AllFulfilled(manifestPromises)
          /\ AllFulfilled(domainPromises)
          /\ Len(manifestPromises) = Len(allManifestUrls)
          /\ Len(domainPromises) = Len(allFileUrls))
  /\ [][/\ pc' = "start" => pc \in {"returned", "crashed"}
        /\ segmentData' # segmentData => pc = "start" \/ pc' = "start"
        /\ pc = "start" => pc' \in {"scan", "rejected"}]_vars

\* A run that fetched a rule, read two data files and sent its PATCH.
C24_Witness ==
  /\ pc = "returned"
  /\ Len(patched) = 1
  /\ hasRules(segmentData)
  /\ Len(domainPromises) = 2

\* The positions of the rules of the segment whose description is a date.
ValidPositions == {k \in DOMAIN segment.rules : IsValidDesc(segment.rules[k].description)}

FirstValidPosition == CHOOSE k \in ValidPositions : \A j \in ValidPositions : k <= j

\* C25: the watermark read from a segment is the instant written in the
\* description of the first rule, in rule order, whose description is a
\* date, and no diagnostic is posted; when no rule has such a description
\* it is the fallback date and one diagnostic is posted; and the read is
\* defined on every segment.
C25_FirstValidRuleOrFallback ==
  /\ pc = "start" => ENABLED FetchOk
  /\ pc = "scan" =>
       IF ValidPositions # {}
       THEN /\ \E i \in Instants :
                 /\ segment.rules[FirstValidPosition].description = FormatLong(i)
                 /\ lastUpdatedDate = DateObject(i)
            /\ CopiesIn(Text("Fallback to default date"), slack) = 0
       ELSE /\ lastUpdatedDate = DateObject(FallbackDate)
            /\ CopiesIn(Text("Fallback to default date"), slack) = 1

\* The watermark taken from the third rule, behind a rule without a
\* description and a rule whose description is no date.
C25_Witness ==
  /\ pc = "scan"
  /\ Len(segment.rules) = 3
  /\ segment.rules[1].description = NoDesc
  /\ segment.rules[2].description = TextDesc
  /\ segment.rules[3].description = FormatLong(Instant(Today, <<13, 5, 9>>))
  /\ lastUpdatedDate = DateObject(Instant(Today, <<13, 5, 9>>))

\* C26: the days enumerated from a watermark are exactly the days from the
\* watermark's day to today, both included, in ascending order without a
\* gap or a repetition; today is always the last of them.
C26_DaysFromWatermarkToToday ==
  pc = "scan" =>
    LET first == ParseDesc(lastUpdatedDate).day
    IN /\ first <= Today
       /\ Len(daysToProcess) = Today - first + 1
       /\ \A k \in DOMAIN daysToProcess : daysToProcess[k] = first + k - 1
       /\ Len(daysToProcess) >= 1
       /\ daysToProcess[Len(daysToProcess)] = Today

\* The watermark is some time of today: today alone is enumerated.
C26_Witness ==
  /\ pc = "scan"
  /\ lastUpdatedDate = DateObject(Instant(Today, <<13, 5, 9>>))
  /\ daysToProcess = <<Today>>

\* The last data-file reference of the run has no seventh path segment, or
\* one that is not ten characters long.
MalformedLast ==
  /\ allFileUrls # <<>>
  /\ LET url == allFileUrls[Len(allFileUrls)]
     IN Len(url) < 8 \/ Len(url[8]) # 10

\* The operations of the PATCH bodies the run sent.
OperationsSent == UNION {SeqToSet(patched[k]) : k \in DOMAIN patched}

\* C27: a run that got past its data files with new domains, and whose last
\* data-file reference has a malformed time token, has posted the 'Invalid
\* numeric part format' message once and has sent one PATCH, every
\* operation of which carries as description the watermark the run read at
\* its start, and whose values hold every new domain of the run.
C27_MalformedTokenKeepsWatermark ==
  (pc \in {"patching", "resolved", "returned"} /\ MalformedLast /\ NewDomainsOfRun # {}) =>
    /\ CopiesIn(Text("Invalid numeric part format"), slack) = 1
    /\ Len(patched) = 1
    /\ patched[1] # <<>>
    /\ \A operation \in OperationsSent :
         /\ operation.value.description = DateObject(ReadWatermark)
         /\ ParseDesc(operation.value.description) = ReadWatermark
    /\ NewDomainsOfRun \subseteq UNION {SeqToSet(ValuesOf(operation)) : operation \in OperationsSent}

\* The file of the six-character token was the last one: its domains were
\* merged into the first rule, under the watermark read from the second.
C27_Witness ==
  /\ pc = "returned"
  /\ statusCode = 200
  /\ MalformedLast
  /\ Len(allFileUrls[Len(allFileUrls)]) = 9
  /\ Len(segmentData.rules) = 2
  /\ segment # segmentData
  /\ segment.rules[1].description = DateObject(Instant(1, <<13, 5, 9>>))
  /\ "z.com" \in SeqToSet(segment.rules[1].clauses[1].values)

\* The watermark as the first rule alone gives it.
WatermarkOfFirstRule ==
  IF segmentData.rules # <<>> /\ IsValidDesc(segmentData.rules[1].description)
  THEN ParseDesc(segmentData.rules[1].description)
  ELSE FallbackDate

\* C28, as stated: a run reads nothing but rules[0], so the watermark it
\* works from is the one of the first rule or the fallback date; every
\* operation it sends is addressed to /rules/0; and when the segment
\* changes the rules behind its first rule are kept.
C28_ReadsAndRewritesFirstRuleOnly ==
  /\ [](pc = "scan" => ParseDesc(lastUpdatedDate) = WatermarkOfFirstRule)
  /\ [](\A operation \in OperationsSent : operation.path = "/rules/0")
  /\ [][(segment' # segment /\ segment.rules # <<>>) =>
          LET kept == Len(segment.rules) - 1
              now == Len(segment'.rules)
          IN /\ now >= kept + 1
             /\ SubSeq(segment'.rules, now - kept + 1, now) = Tail(segment.rules)]_vars

\* C28, amended: every operation a run sends is addressed to /rules/0 and
\* holds no value but those of the fetched first rule and the new domains
\* of the run; when the segment changes, the rules that stood behind its
\* first rule are, in the same order, the last rules of the changed
\* segment; the watermark is read from the first rule, in rule order, whose
\* description is a date, which need not be rules[0].
C28_OnlyFirstRuleRewritten ==
  /\ [](\A operation \in OperationsSent : operation.path = "/rules/0")
  /\ [](\A operation \in OperationsSent :
          SeqToSet(ValuesOf(operation)) \subseteq
            SeqToSet(ExistingOfFetched) \cup NewDomainsOfRun)
  /\ [](pc = "scan" => ParseDesc(lastUpdatedDate) = ReadWatermark)
  /\ [][(segment' # segment /\ segment.rules # <<>>) =>
          LET kept == Len(segment.rules) - 1
              now == Len(segment'.rules)
          IN /\ now >= kept + 1
             /\ SubSeq(segment'.rules, now - kept + 1, now) = Tail(segment.rules)]_vars

\* A segment of two rules, the watermark read from the second, after a
\* PATCH of several operations: its second rule is now the last one.
C28_Witness ==
  /\ pc = "resolved"
  /\ Len(segmentData.rules) = 2
  /\ ReadWatermark # WatermarkOfFirstRule
  /\ segment # segmentData
  /\ Len(patchOperation) >= 2
  /\ Len(segment.rules) >= 3
  /\ segment.rules[Len(segment.rules)] = segmentData.rules[2]

\* The GET, a listing or a manifest of the run failed.
StageFailed ==
  \E m \in BagToSet(slack) :
    m.type \in {"GET request failed", "Error processing data From S3: true",
                "Error processing manifest"}

ScenarioWatermark ==
  [kind |-> "long", ymd |-> <<2024, 1, 2>>, hms |-> <<9, 30, 0>>, meridiem |-> "AM"]

\* A run on a segment without rules that found the one manifest of
\* 2024-01-02, read x.com and y.com from its data file and had its PATCH
\* acknowledged.
ScenarioRun ==
  /\ pc \in {"resolved", "returned"}
  /\ store = {ScenarioManifest}
  /\ segmentData.rules = <<>>
  /\ lastUpdatedDate # NoDesc
  /\ allManifestUrls = <<ScenarioManifest>>
  /\ Len(allFileUrls) = 1
  /\ Extracted = <<"x.com", "y.com">>
  /\ CopiesIn(Text("PATCH request failed"), slack) = 0

\* C30: the scenario run has sent one PATCH of one operation, an 'add' on
\* /rules/0 of the values x.com, y.com under the description of the data
\* file's timestamp, and has posted one success message, with count 2.
C30_EndToEndScenario ==
  ScenarioRun =>
    /\ ReadWatermark = Instant(1, <<0, 0, 0>>)
    /\ patched =
         << << [op |-> "add", path |-> "/rules/0",
                value |-> [clauses |-> << [contextKind |-> "user", attribute |-> "emailDomain",
                                           op |-> "in", values |-> <<"x.com", "y.com">>,
                                           negate |-> FALSE] >>,
                           description |-> ScenarioWatermark]] >> >>
    /\ SuccessMessages = {[type |-> "Success", count |-> 2, watermark |-> ScenarioWatermark]}
    /\ \A m \in SuccessMessages : CopiesIn(m, slack) = 1

C30_Witness ==
  /\ ScenarioRun
  /\ pc = "returned"
  /\ statusCode = 200
  /\ Len(segment.rules) = 1
  /\ segment.rules[1].clauses[1].values = <<"x.com", "y.com">>
  /\ segment.rules[1].description = ScenarioWatermark

\* The (year, month, day, time token) key of a manifest reference.
ManifestOrderKey(key) == key[2] \o key[3] \o key[4] \o key[5]

\* C31: when the manifests are about to be resolved, the references
\* collected from all days stand in strictly ascending order of their
\* (year, month, day, time token) key, in whatever order the scans of the
\* days returned.
C31_ManifestsAscending ==
  (pc = "resolve" /\ \A i \in DOMAIN manifestPromises : manifestPromises[i].state = "pending") =>
    /\ Len(settled) = Len(daysToProcess)
    /\ \A i, j \in DOMAIN allManifestUrls :
         i < j => StrLess(ManifestOrderKey(allManifestUrls[i]),
                          ManifestOrderKey(allManifestUrls[j]))

\* The scan of the later day returned first, and both days gave a manifest.
C31_Witness ==
  /\ pc = "resolve"
  /\ Len(settled) >= 2
  /\ settled[1] > settled[2]
  /\ Len(allManifestUrls) >= 2
  /\ allManifestUrls[1][4] # allManifestUrls[2][4]
  /\ \A i \in DOMAIN manifestPromises : manifestPromises[i].state = "pending"

ValuesInOrder(operations) == Flat([j \in DOMAIN operations |-> ValuesOf(operations[j])])

\* C33: when the merged list is chunked, the values of the patch operations
\* concatenated in operation order are the merged list (the values of the
\* fetched first rule followed by the new domains): each merged value is in
\* exactly one operation, in its original place.
C33_ChunksConcatenateToMergedList ==
  \A r \in DOMAIN patched :
    Len(patched[r]) > 1 =>
      /\ ValuesInOrder(patched[r]) = ExistingOfFetched \o domains
      /\ \A j \in DOMAIN patched[r] : ValuesOf(patched[r][j]) # <<>>

\* C33 witness: a PATCH body of two operations, the second longer than the
\* limit, over existing values and new domains.
C33_Witness ==
  /\ PatchBuilt
  /\ Len(patched[1]) = 2
  /\ ExistingOfFetched # <<>>
  /\ domains # <<>>
  /\ Len(ValuesOf(patched[1][2])) > NumVal(Limit)

\* The watermark a run ends with: the long format of the timestamp in the
\* path of its last data file, or, when that token is malformed and the
\* update is skipped, the Date the run started from.
FinalWatermark ==
  IF MalformedLast THEN DateObject(ReadWatermark)
  ELSE FormatLong(TimestampOf(allFileUrls[Len(allFileUrls)]))

\* C34: every patch operation of a run carries the same description, and
\* it is the run's final watermark: the newly computed one, or the starting
\* watermark when the update was skipped.
C34_OneDescriptionPerRun ==
  \A r \in DOMAIN patched :
    \A j \in DOMAIN patched[r] :
      /\ patched[r][j].value.description = patched[r][1].value.description
      /\ patched[r][j].value.description = lastUpdatedDate
      /\ lastUpdatedDate = FinalWatermark

\* C34 witness: a PATCH body of two operations after a skipped update, in a
\* run whose first rule had another description than the one it read.
C34_Witness ==
  /\ PatchBuilt
  /\ Len(patched[1]) >= 2
  /\ MalformedLast
  /\ segmentData.rules # <<>>
  /\ segmentData.rules[1].description # lastUpdatedDate

\* C34, second case: two operations under a newly computed watermark.
C34_WitnessUpdated ==
  /\ PatchBuilt
  /\ Len(patched[1]) >= 2
  /\ ~MalformedLast
  /\ ParseDesc(lastUpdatedDate) # ReadWatermark

\* C35: over any sequence of runs, the PATCH bodies applied with JSON Patch
\* semantics, no domain is ever lost: no step takes a value out of the
\* rules of the segment, and once a run has written the segment the values
\* of all its rules contain the values of all rules of the segment the run
\* fetched and every new domain of the run.
C35_NoDomainLost ==
  /\ [](SegmentWritten =>
          (SegmentValues(segmentData) \cup NewDomainsOfRun) \subseteq SegmentValues(segment))
  /\ [][SegmentValues(segment) \subseteq SegmentValues(segment')]_vars

\* C35 witness: a later run of the process replaced the first of several
\* rules and added a second chunk before it; the rules behind still hold
\* their values.
C35_Witness ==
  /\ SegmentWritten
  /\ last # NoRun
  /\ Len(segmentData.rules) >= 2
  /\ Len(patched[1]) >= 2
  /\ patched[1][1].op = "replace"
  /\ Len(segment.rules) = Len(segmentData.rules) + 1
  /\ SegmentValues(segment) # SegmentValues(segmentData)

\* The instant the description a run wrote stands for: the timestamp in the
\* path of its last data file, or the watermark it started from when the
\* update was skipped.
WrittenInstant ==
  IF MalformedLast THEN ReadWatermark ELSE TimestampOf(allFileUrls[Len(allFileUrls)])

\* The run posted the fallback diagnostic: no rule had a date.
FellBack == \E m \in BagToSet(slack) : m.type = "Fallback to default date"

C36_WitnessSkipped ==
  /\ last.outcome = "success"
  /\ pc = "scan"
  /\ segment.rules[1].description.kind = "date"
  /\ ParseDesc(lastUpdatedDate) = FallbackDate
  /\ ~FellBack

\* The manifests the scans of the run have collected.
CollectedByOwnScans ==
  UNION {Collected(i) : i \in {j \in DOMAIN dayProcessingPromises : ScanDone(j)}}

\* C37: runs in one process are independent. A run starts with no manifest
\* list, watermark or other result of an earlier run, and until its own
\* scans are joined it has no manifest list; the manifests it resolves are
\* exactly those its own per-day scans collected, each once, each an object
\* of a day the run enumerated from the watermark it read itself.
C37_RunsIndependent ==
  /\ pc = "start" =>
       /\ allManifestUrls = <<>> /\ lastUpdatedDate = NoDesc
       /\ daysToProcess = <<>> /\ dayProcessingPromises = <<>>
       /\ manifestPromises = <<>> /\ allFileUrls = <<>>
       /\ domainPromises = <<>> /\ domains = <<>> /\ patched = <<>>
  /\ pc = "scan" => allManifestUrls = <<>>
  /\ pc \in {"resolve", "extract", "patching", "resolved"} =>
       /\ SeqToSet(allManifestUrls) = CollectedByOwnScans
       /\ Cardinality(SeqToSet(allManifestUrls)) = Len(allManifestUrls)
       /\ Len(manifestPromises) = Len(allManifestUrls)
       /\ daysToProcess = getDatesFromLastUpdateToCurrent(DateObject(ReadWatermark))
       /\ \A i \in DOMAIN dayProcessingPromises :
            Collected(i) \subseteq ManifestsOfDay(daysToProcess[i])

\* C37 witness: the run after a run whose PATCH failed collects the same
\* manifests again, through its own scans, and is resolving them.
C37_Witness ==
  /\ last.outcome = "patchfail"
  /\ pc = "resolve"
  /\ Len(allManifestUrls) >= 2
  /\ \E i \in DOMAIN manifestPromises : manifestPromises[i].state = "fulfilled"

C39_EveryRunReturnsResponse == <>(pc = "returned" /\ statusCode \in {200, 500})

\* The part of C39 that holds: every run comes to an end, with a response
\* or with the process ended by the uncaught error of a corrupt data file.
C39_EveryRunEnds == <>(pc \in {"returned", "crashed"})

\* A run that ends without a response has been ended by a corrupt data
\* file while file tasks were pending.
C39_NoResponseOnlyWhenCorrupt ==
  pc = "crashed" => \E i \in DOMAIN domainPromises : domainPromises[i].state = "pending"

====
